---- MODULE Spec2Model ----
(***************************************************************************)
(* Model of main.py, the FastAPI tutorial application: the route table     *)
(* built by the @app.<method> decorators in declaration order, the         *)
(* binding and validation the handler signatures declare, and the handler  *)
(* bodies.  Text (path segments, query values) is a sequence of one-       *)
(* character strings, so that coercion to int and bool is computed.        *)
(* A path is the sequence of its segments: "/" is << <<>> >>, "/query/" is *)
(* <<query, <<>>>> and "/items/5" is <<items, <<"5">>>>.  Floats are       *)
(* represented by integers.                                                *)
(***************************************************************************)
EXTENDS FiniteSets, Integers, Sequences, TLC

VARIABLES fake_items_db, pc, req, resp

vars == <<fake_items_db, pc, req, resp>>

(* ------------------------------ bounds --------------------------------- *)

\* integers -MaxInt..MaxInt are offered as skip and limit
MaxInt == 3
\* a repeated query parameter appears at most MaxRepeat times
MaxRepeat == 2

Clients == {"c1", "c2"}

(* ------------------------- program constants --------------------------- *)

ItemIdGt == 0
ItemIdLe == 1000
QMaxLength == 50
QMinLength == 3
DefaultSkip == 0
DefaultLimit == 10

(* ------------------------------- text ---------------------------------- *)

w_items == <<"i","t","e","m","s">>
w_users == <<"u","s","e","r","s">>
w_me == <<"m","e">>
w_models == <<"m","o","d","e","l","s">>
w_files == <<"f","i","l","e","s">>
w_query == <<"q","u","e","r","y">>
w_optional == <<"o","p","t","i","o","n","a","l">>
w_request == <<"r","e","q","u","e","s","t">>
w_params == <<"p","a","r","a","m","s">>
w_default == <<"d","e","f","a","u","l","t">>
w_required == <<"r","e","q","u","i","r","e","d">>
w_none == <<"n","o","n","e">>
w_multiple == <<"m","u","l","t","i","p","l","e">>
w_defaults == <<"d","e","f","a","u","l","t","s">>
w_alexnet == <<"a","l","e","x","n","e","t">>
w_resnet == <<"r","e","s","n","e","t">>
w_lenet == <<"l","e","n","e","t">>
w_foo == <<"f","o","o">>
w_bar == <<"b","a","r">>
w_empty == << >>

(* ------------------------------ JSON ----------------------------------- *)

JNull == [k |-> "null"]
JInt(n) == [k |-> "int", v |-> n]
JStr(t) == [k |-> "str", v |-> t]
JList(s) == [k |-> "list", v |-> s]
JDict(d) == [k |-> "dict", v |-> d]
JBool(b) == [k |-> "bool", v |-> b]

\* an argument that failed validation, and an exception raised by a handler
Invalid == [k |-> "invalid"]
Raise == [k |-> "raise"]

\* Python truthiness of the values the handlers test with "if x:"
Truthy(j) ==
  CASE j.k = "null" -> FALSE
    [] j.k = "int" -> j.v # 0
    [] j.k = "str" -> Len(j.v) > 0
    [] j.k = "list" -> Len(j.v) > 0
    [] j.k = "bool" -> j.v
    [] OTHER -> TRUE

\* d.update(e): the keys of e override those of d
Update(d, e) == e @@ d

(* --------------------------- the sample list --------------------------- *)

InitialDb ==
  << JDict([item_name |-> JStr(<<"F","o","o">>)]),
     JDict([item_name |-> JStr(<<"B","a","r">>)]),
     JDict([item_name |-> JStr(<<"B","a","z">>)]) >>

(* ----------------------------- coercion -------------------------------- *)

Digits == {"0","1","2","3","4","5","6","7","8","9"}

DigitVal ==
  "0" :> 0 @@ "1" :> 1 @@ "2" :> 2 @@ "3" :> 3 @@ "4" :> 4 @@
  "5" :> 5 @@ "6" :> 6 @@ "7" :> 7 @@ "8" :> 8 @@ "9" :> 9

Unsigned(t) == IF Len(t) > 0 /\ t[1] \in {"-", "+"} THEN Tail(t) ELSE t

\* int(text) succeeds: an optional sign, then one or more decimal digits
IsIntText(t) ==
  LET u == Unsigned(t)
  IN  Len(u) > 0 /\ \A i \in 1..Len(u) : u[i] \in Digits

RECURSIVE DigitsValue(_)
DigitsValue(u) ==
  IF Len(u) = 0 THEN 0
  ELSE 10 * DigitsValue(SubSeq(u, 1, Len(u) - 1)) + DigitVal[u[Len(u)]]

IntOf_unsigned(t) == DigitsValue(Unsigned(t))

\* int(text), for a text that IsIntText accepts
IntOf(t) ==
  IF Len(t) > 0 /\ t[1] = "-" THEN 0 - DigitsValue(Unsigned(t))
  ELSE DigitsValue(Unsigned(t))

BoolTrue ==
  { <<"1">>, <<"o","n">>, <<"t">>, <<"t","r","u","e">>, <<"y">>, <<"y","e","s">> }

BoolFalse ==
  { <<"0">>, <<"o","f","f">>, <<"f">>, <<"f","a","l","s","e">>, <<"n">>, <<"n","o">> }

IsBoolText(t) == t \in BoolTrue \cup BoolFalse

BoolOf(t) == t \in BoolTrue

(* ---------------------------- route table ------------------------------ *)

Lit(t) == [kind |-> "lit", lit |-> t, param |-> "", conv |-> ""]
Param(n) == [kind |-> "param", lit |-> w_empty, param |-> n, conv |-> "str"]
PathParam(n) == [kind |-> "param", lit |-> w_empty, param |-> n, conv |-> "path"]

Route(m, p, e) == [method |-> m, path |-> p, endpoint |-> e]

\* app.routes: one entry per decorator, in declaration order
routes ==
  << Route("GET", <<Lit(w_empty)>>, "root"),
     Route("GET", <<Lit(w_items), Param("item_id")>>, "read_item"),
     Route("GET", <<Lit(w_users), Lit(w_me)>>, "read_user_me"),
     Route("GET", <<Lit(w_users), Param("user_id")>>, "read_user"),
     Route("GET", <<Lit(w_models), Param("model_name")>>, "get_model"),
     Route("GET", <<Lit(w_files), PathParam("file_path")>>, "read_file"),
     Route("GET", <<Lit(w_query), Lit(w_empty)>>, "read_item_query"),
     Route("GET", <<Lit(w_query), Lit(w_optional), Param("item_id")>>, "read_item_optional"),
     Route("GET", <<Lit(w_query), Param("item_id")>>, "read_item_bool"),
     Route("GET", <<Lit(w_users), Param("user_id"), Lit(w_items), Param("item_id")>>, "read_user_item"),
     Route("GET", <<Lit(w_query), Lit(w_items), Param("item_id")>>, "read_user_item_required"),
     Route("POST", <<Lit(w_request), Lit(w_items), Lit(w_empty)>>, "create_item"),
     Route("PUT", <<Lit(w_request), Lit(w_items), Param("item_id")>>, "create_item_body_path"),
     Route("PUT", <<Lit(w_request), Lit(w_items), Param("item_id")>>, "create_item_query"),
     Route("GET", <<Lit(w_params), Lit(w_items), Lit(w_empty)>>, "read_items_max_length"),
     Route("GET", <<Lit(w_params), Lit(w_default), Lit(w_empty)>>, "read_items_default"),
     Route("GET", <<Lit(w_params), Lit(w_required), Lit(w_empty)>>, "read_items_required"),
     Route("GET", <<Lit(w_params), Lit(w_none), Lit(w_empty)>>, "read_items_none"),
     Route("GET", <<Lit(w_params), Lit(w_required), Lit(w_empty)>>, "read_items_pydantic_required"),
     Route("GET", <<Lit(w_params), Lit(w_multiple), Lit(w_empty)>>, "read_items_multiple"),
     Route("GET", <<Lit(w_params), Lit(w_multiple), Lit(w_defaults), Lit(w_empty)>>, "read_items_multiple_defaults"),
     Route("GET", <<Lit(w_items), Param("item_id")>>, "read_items_title"),
     Route("GET", <<Lit(w_items), Param("item_id")>>, "read_items_ordered"),
     Route("GET", <<Lit(w_items), Param("item_id")>>, "read_items_range") >>

\* a literal segment matches itself, {name} matches one non-empty segment
MatchSeg(ps, seg) == IF ps.kind = "lit" THEN seg = ps.lit ELSE Len(seg) > 0

\* the path matches the pattern; a trailing {name:path} takes the rest
MatchesPath(pat, path) ==
  IF pat[Len(pat)].conv = "path"
  THEN /\ Len(path) >= Len(pat)
       /\ \A i \in 1..(Len(pat) - 1) : MatchSeg(pat[i], path[i])
  ELSE /\ Len(path) = Len(pat)
       /\ \A i \in 1..Len(pat) : MatchSeg(pat[i], path[i])

RECURSIVE JoinSegs(_)
JoinSegs(segs) ==
  IF Len(segs) = 0 THEN w_empty
  ELSE IF Len(segs) = 1 THEN segs[1]
  ELSE segs[1] \o <<"/">> \o JoinSegs(Tail(segs))

\* the text bound to path parameter n of a matching path
PathArg(pat, path, n) ==
  LET i == CHOOSE j \in 1..Len(pat) : pat[j].param = n
  IN  IF pat[i].conv = "path" THEN JoinSegs(SubSeq(path, i, Len(path)))
      ELSE path[i]

FullMatches(r) ==
  { i \in 1..Len(routes) : routes[i].method = r.method /\ MatchesPath(routes[i].path, r.path) }

PartialMatches(r) ==
  { i \in 1..Len(routes) : MatchesPath(routes[i].path, r.path) }

Min(S) == CHOOSE x \in S : \A y \in S : x <= y
Max(S) == CHOOSE x \in S : \A y \in S : x >= y

\* Router: the routes are tried in declaration order, the first match serves
Dispatch_last(r) == Max(FullMatches(r))
Dispatch(r) == Min(FullMatches(r))

(* ------------------------- argument binding ---------------------------- *)

\* QueryParams.getlist(key): every value of key, in URL order
RECURSIVE GetList(_, _)
GetList(q, key) ==
  IF Len(q) = 0 THEN << >>
  ELSE IF q[1].k = key THEN <<q[1].v>> \o GetList(Tail(q), key)
  ELSE GetList(Tail(q), key)

HasKey(q, key) == Len(GetList(q, key)) > 0

\* QueryParams.get(key): the last value of key
Get(q, key) == LET l == GetList(q, key) IN l[Len(l)]

AsInt(t) == IF IsIntText(t) THEN JInt(IntOf(t)) ELSE Invalid
AsBool(t) == IF IsBoolText(t) THEN JBool(BoolOf(t)) ELSE Invalid

QStr(q, key, default) == IF HasKey(q, key) THEN JStr(Get(q, key)) ELSE default
QInt(q, key, default) == IF HasKey(q, key) THEN AsInt(Get(q, key)) ELSE default
QBool(q, key, default) == IF HasKey(q, key) THEN AsBool(Get(q, key)) ELSE default

JStrs(l) == JList([i \in 1..Len(l) |-> JStr(l[i])])

QList_last(q, key, default) == IF HasKey(q, key) THEN JStrs(<<Get(q, key)>>) ELSE default

\* a list[str] parameter: getlist(key) or the default
QList(q, key, default) == IF HasKey(q, key) THEN JStrs(GetList(q, key)) ELSE default

MaxLength(j, n) == IF j.k = "str" /\ Len(j.v) > n THEN Invalid ELSE j
MinLength(j, n) == IF j.k = "str" /\ Len(j.v) < n THEN Invalid ELSE j
Gt(j, n) == IF j.k = "int" /\ ~(j.v > n) THEN Invalid ELSE j
Le(j, n) == IF j.k = "int" /\ ~(j.v <= n) THEN Invalid ELSE j

ModelName == {w_alexnet, w_resnet, w_lenet}

AsModelName(t) == IF t \in ModelName THEN JStr(t) ELSE Invalid

Has(b, f) == f \in DOMAIN b.v

\* the body validates as an Item: name and price required, the rest optional
IsItem(b) ==
  /\ b.k = "dict"
  /\ Has(b, "name") /\ b.v["name"].k = "str"
  /\ Has(b, "price") /\ b.v["price"].k = "int"
  /\ Has(b, "description") => b.v["description"].k \in {"str", "null"}
  /\ Has(b, "tax") => b.v["tax"].k \in {"int", "null"}

AsItem(b) ==
  IF IsItem(b)
  THEN JDict([name |-> b.v["name"],
              description |-> IF Has(b, "description") THEN b.v["description"] ELSE JNull,
              price |-> b.v["price"],
              tax |-> IF Has(b, "tax") THEN b.v["tax"] ELSE JNull])
  ELSE Invalid

NoArgs == [n \in {} |-> JNull]

\* the arguments the signature of endpoint e binds from request r
Bind(e, r, pat) ==
  LET q == r.query
      P(n) == PathArg(pat, r.path, n)
  IN
  CASE e = "root" -> NoArgs
    [] e = "read_item" -> [item_id |-> AsInt(P("item_id"))]
    [] e = "read_user_me" -> NoArgs
    [] e = "read_user" -> [user_id |-> JStr(P("user_id"))]
    [] e = "get_model" -> [model_name |-> AsModelName(P("model_name"))]
    [] e = "read_file" -> [file_path |-> JStr(P("file_path"))]
    [] e = "read_item_query" ->
         [skip |-> QInt(q, "skip", JInt(DefaultSkip)),
          limit |-> QInt(q, "limit", JInt(DefaultLimit))]
    [] e = "read_item_optional" ->
         [item_id |-> JStr(P("item_id")), q |-> QStr(q, "q", JNull)]
    [] e = "read_item_bool" ->
         [item_id |-> JStr(P("item_id")), q |-> QStr(q, "q", JNull),
          short |-> QBool(q, "short", JBool(FALSE))]
    [] e = "read_user_item" ->
         [user_id |-> AsInt(P("user_id")), item_id |-> JStr(P("item_id")),
          q |-> QStr(q, "q", JNull), short |-> QBool(q, "short", JBool(FALSE))]
    [] e = "read_user_item_required" ->
         [item_id |-> JStr(P("item_id")), needy |-> QStr(q, "needy", Invalid),
          skip |-> QInt(q, "skip", JInt(DefaultSkip)), limit |-> QInt(q, "limit", JNull)]
    [] e = "create_item" -> [item |-> AsItem(r.body)]
    [] e = "create_item_body_path" ->
         [item_id |-> AsInt(P("item_id")), item |-> AsItem(r.body)]
    [] e = "create_item_query" ->
         [item_id |-> AsInt(P("item_id")), item |-> AsItem(r.body),
          q |-> QStr(q, "q", JNull)]
    [] e = "read_items_max_length" -> [q |-> MaxLength(QStr(q, "q", JNull), QMaxLength)]
    [] e = "read_items_default" ->
         [q |-> IF HasKey(q, "q") THEN MinLength(JStr(Get(q, "q")), QMinLength)
                ELSE JStr(<<"f","i","x","e","d","q","u","e","r","y">>)]
    [] e = "read_items_required" -> [q |-> MinLength(QStr(q, "q", Invalid), QMinLength)]
    [] e = "read_items_none" -> [q |-> MinLength(QStr(q, "q", Invalid), QMinLength)]
    [] e = "read_items_pydantic_required" ->
         [q |-> MinLength(QStr(q, "q", Invalid), QMinLength)]
    [] e = "read_items_multiple" -> [q |-> QList(q, "q", JNull)]
    [] e = "read_items_multiple_defaults" -> [q |-> QList(q, "q", JStrs(<<w_foo, w_bar>>))]
    [] e = "read_items_title" ->
         [item_id |-> AsInt(P("item_id")), q |-> QStr(q, "item-query", JNull)]
    [] e = "read_items_ordered" ->
         [q |-> QStr(q, "q", Invalid), item_id |-> AsInt(P("item_id"))]
    [] e = "read_items_range" ->
         [item_id |-> Le(Gt(AsInt(P("item_id")), ItemIdGt), ItemIdLe),
          q |-> QStr(q, "q", Invalid)]

Valid(args) == \A n \in DOMAIN args : args[n].k # "invalid"

(* ------------------------------ handlers ------------------------------- *)

\* s[a:b] of Python: negative indices count from the end, all are clamped
Clamp(i, n) ==
  IF i < 0 THEN (IF i + n < 0 THEN 0 ELSE i + n)
  ELSE IF i > n THEN n ELSE i

PySlice(s, a, b) ==
  LET lo == Clamp(a, Len(s))
      hi == Clamp(b, Len(s))
  IN  IF lo < hi THEN SubSeq(s, lo + 1, hi) ELSE << >>

\* a + b of Python: numbers add, None + number raises TypeError
Add(a, b) == IF a.k = "int" /\ b.k = "int" THEN JInt(a.v + b.v) ELSE Raise

m_hello ==
  <<"H","e","l","l","o"," ","W","o","r","l","d">>
m_current_user ==
  <<"t","h","e"," ","c","u","r","r","e","n","t"," ","u","s","e","r">>
m_alexnet ==
  <<"D","e","e","p"," ","L","e","a","r","n","i","n","g"," ","F","T","W","!">>
m_lenet ==
  <<"L","e","C","N","N"," ","a","l","l"," ","t","h","e"," ","i","m","a","g","e","s">>
m_resnet ==
  <<"H","a","v","e"," ","s","o","m","e"," ","r","e","s","i","d","u","a","l","s">>
m_long_description ==
  <<"T","h","i","s"," ","i","s"," ","a","n"," ","a","m","a","z","i","n","g"," ","i","t","e","m"," ","t","h","a","t"," ","h","a","s"," ","a"," ","l","o","n","g"," ","d","e","s","c","r","i","p","t","i","o","n">>

ItemsFooBar ==
  JList(<< JDict([item_id |-> JStr(<<"F","o","o">>)]),
           JDict([item_id |-> JStr(<<"B","a","r">>)]) >>)

\* results.update({"q": q}) under "if q:"
WithQ(d, q) == IF Truthy(q) THEN Update(d, [q |-> q]) ELSE d

root == JDict([message |-> JStr(m_hello)])

read_item(item_id) == JDict([item_id |-> item_id])

read_user_me == JDict([user_id |-> JStr(m_current_user)])

read_user(user_id) == JDict([user_id |-> user_id])

get_model_two_messages(model_name) ==
  IF model_name.v = w_alexnet
  THEN JDict([model_name |-> model_name, message |-> JStr(m_alexnet)])
  ELSE JDict([model_name |-> model_name, message |-> JStr(m_resnet)])

get_model(model_name) ==
  IF model_name.v = w_alexnet
  THEN JDict([model_name |-> model_name, message |-> JStr(m_alexnet)])
  ELSE IF model_name.v = w_lenet
  THEN JDict([model_name |-> model_name, message |-> JStr(m_lenet)])
  ELSE JDict([model_name |-> model_name, message |-> JStr(m_resnet)])

read_file(file_path) == JDict([file_path |-> file_path])

read_item_query_stop_at_limit(db, skip, limit) == JList(PySlice(db, skip.v, limit.v))

read_item_query(db, skip, limit) == JList(PySlice(db, skip.v, skip.v + limit.v))

read_item_optional(item_id, q) ==
  IF Truthy(q) THEN JDict([item_id |-> item_id, q |-> q])
  ELSE JDict([item_id |-> item_id])

WithDescription(d, short) ==
  IF ~Truthy(short) THEN Update(d, [description |-> JStr(m_long_description)]) ELSE d

read_item_bool(item_id, q, short) ==
  JDict(WithDescription(WithQ([item_id |-> item_id], q), short))

read_user_item(user_id, item_id, q, short) ==
  JDict(WithDescription(WithQ([item_id |-> item_id, owner_id |-> user_id], q), short))

read_user_item_required(item_id, needy, skip, limit) ==
  JDict([item_id |-> item_id, needy |-> needy, skip |-> skip, limit |-> limit])

create_item_unguarded(item) ==
  LET price_with_tax == Add(item.v.price, item.v.tax)
  IN  IF price_with_tax.k = "raise" THEN Raise
      ELSE JDict(Update(item.v, [price_with_tax |-> price_with_tax]))

create_item(item) ==
  IF Truthy(item.v.tax)
  THEN LET price_with_tax == Add(item.v.price, item.v.tax)
       IN  IF price_with_tax.k = "raise" THEN Raise
           ELSE JDict(Update(item.v, [price_with_tax |-> price_with_tax]))
  ELSE JDict(item.v)

create_item_body_path(item_id, item) == JDict([item_id |-> item_id] @@ item.v)

create_item_query(item_id, item, q) == JDict(WithQ([item_id |-> item_id] @@ item.v, q))

\* the five single-valued /params/ handlers share one body
read_items(q) == JDict(WithQ([items |-> ItemsFooBar], q))

read_items_list(q) == JDict([q |-> q])

\* the three later /items/{item_id} handlers share one body
read_items_path(item_id, q) == JDict(WithQ([item_id |-> item_id], q))

\* the handler of endpoint e, applied to its bound arguments
Call(e, a, db) ==
  CASE e = "root" -> root
    [] e = "read_item" -> read_item(a.item_id)
    [] e = "read_user_me" -> read_user_me
    [] e = "read_user" -> read_user(a.user_id)
    [] e = "get_model" -> get_model(a.model_name)
    [] e = "read_file" -> read_file(a.file_path)
    [] e = "read_item_query" -> read_item_query(db, a.skip, a.limit)
    [] e = "read_item_optional" -> read_item_optional(a.item_id, a.q)
    [] e = "read_item_bool" -> read_item_bool(a.item_id, a.q, a.short)
    [] e = "read_user_item" -> read_user_item(a.user_id, a.item_id, a.q, a.short)
    [] e = "read_user_item_required" ->
         read_user_item_required(a.item_id, a.needy, a.skip, a.limit)
    [] e = "create_item" -> create_item(a.item)
    [] e = "create_item_body_path" -> create_item_body_path(a.item_id, a.item)
    [] e = "create_item_query" -> create_item_query(a.item_id, a.item, a.q)
    [] e \in {"read_items_max_length", "read_items_default", "read_items_required",
              "read_items_none", "read_items_pydantic_required"} -> read_items(a.q)
    [] e \in {"read_items_multiple", "read_items_multiple_defaults"} -> read_items_list(a.q)
    [] e \in {"read_items_title", "read_items_ordered", "read_items_range"} ->
         read_items_path(a.item_id, a.q)

(* ------------------------------ serving -------------------------------- *)

NoRoute == 0

Response(s, i, ran, body) == [status |-> s, route |-> i, ran |-> ran, body |-> body]

\* one request, from routing to the response
Serve(r, db) ==
  IF FullMatches(r) = {}
  THEN IF PartialMatches(r) # {}
       THEN Response(405, NoRoute, FALSE, JNull)
       ELSE Response(404, NoRoute, FALSE, JNull)
  ELSE LET i == Dispatch(r)
           e == routes[i].endpoint
           args == Bind(e, r, routes[i].path)
       IN  IF ~Valid(args) THEN Response(422, i, FALSE, JNull)
           ELSE LET out == Call(e, args, db)
                IN  IF out.k = "raise" THEN Response(500, i, TRUE, JNull)
                    ELSE Response(200, i, TRUE, out)

(* ------------------------------ requests ------------------------------- *)

DigitChar ==
  0 :> "0" @@ 1 :> "1" @@ 2 :> "2" @@ 3 :> "3" @@ 4 :> "4" @@
  5 :> "5" @@ 6 :> "6" @@ 7 :> "7" @@ 8 :> "8" @@ 9 :> "9"

RECURSIVE NatText(_)
NatText(n) ==
  IF n < 10 THEN <<DigitChar[n]>>
  ELSE NatText(n \div 10) \o <<DigitChar[n % 10]>>

\* the decimal text of integer n, as a client writes it in a URL
IntText(n) == IF n < 0 THEN <<"-">> \o NatText(0 - n) ELSE NatText(n)

NoBody == [k |-> "none"]

Request(m, p, q, b) == [method |-> m, path |-> p, query |-> q, body |-> b]

Get1(p, q) == Request("GET", p, q, NoBody)

\* the query strings with key absent, or present once with a value of texts
Opt(key, texts) == { << >> } \cup { <<[k |-> key, v |-> t]>> : t \in texts }

\* the query strings repeating key 0..MaxRepeat times with values of texts
Repeated(key, texts) ==
  UNION { { [i \in 1..n |-> [k |-> key, v |-> f[i]]] : f \in [1..n -> texts] } : n \in 0..MaxRepeat }

SmallInts == { IntText(n) : n \in (0 - MaxInt)..MaxInt }
LimitInts == { IntText(n) : n \in (0 - 1)..MaxInt }
ItemIds ==
  { IntText(n) : n \in {0 - 1, ItemIdGt, 1, 5, ItemIdLe, ItemIdLe + 1} } \cup { <<"0","0","7">>, w_foo }
LongText == [i \in 1..(QMaxLength + 1) |-> "x"]
ShortText == <<"f","o">>

Bodies ==
  { NoBody,
    JDict([name |-> JStr(<<"a">>)]),
    JDict([name |-> JStr(<<"a">>), price |-> JStr(w_foo)]),
    JDict([name |-> JStr(<<"a">>), price |-> JInt(10)]),
    JDict([name |-> JStr(<<"a">>), price |-> JInt(10), tax |-> JNull]),
    JDict([name |-> JStr(<<"a">>), price |-> JInt(10), tax |-> JInt(0)]),
    JDict([name |-> JStr(<<"a">>), price |-> JInt(10), tax |-> JInt(2)]),
    JDict([name |-> JStr(<<"a">>), description |-> JStr(<<"d">>), price |-> JInt(7), tax |-> JInt(0 - 2)]) }

Requests ==
  { Get1(<<w_empty>>, << >>),
    Request("POST", <<w_empty>>, << >>, NoBody),
    Get1(<<w_none>>, << >>) }
  \cup { Get1(<<w_items, t>>, q) : t \in ItemIds, q \in Opt("q", {w_foo, w_empty}) }
  \cup { Get1(<<w_users, t>>, << >>) : t \in {w_me, w_foo, IntText(5)} }
  \cup { Get1(<<w_models, t>>, << >>) : t \in ModelName \cup {w_foo} }
  \cup { Get1(<<w_files, w_empty>>, << >>), Get1(<<w_files, w_foo, w_bar>>, << >>) }
  \cup { Get1(<<w_query, w_empty>>, s \o l) :
           s \in Opt("skip", SmallInts \cup {w_foo}), l \in Opt("limit", LimitInts) }
  \cup { Get1(<<w_query, w_optional, w_foo>>, q) : q \in Opt("q", {w_foo}) }
  \cup { Get1(<<w_query, w_foo>>, q \o b) :
           q \in Opt("q", {w_foo}), b \in Opt("short", {<<"y","e","s">>, <<"0">>, w_foo}) }
  \cup { Get1(<<w_users, u, w_items, w_foo>>, << >>) : u \in {IntText(5), w_foo} }
  \cup { Get1(<<w_query, w_items, w_foo>>, n \o l) :
           n \in Opt("needy", {w_foo}), l \in Opt("limit", {IntText(2), w_foo}) }
  \cup { Request("POST", <<w_request, w_items, w_empty>>, << >>, b) : b \in Bodies }
  \cup { Request("PUT", <<w_request, w_items, t>>, q, b) :
           t \in {IntText(5)}, q \in Opt("q", {w_foo}),
           b \in {NoBody, JDict([name |-> JStr(<<"a">>), price |-> JInt(10)])} }
  \cup { Get1(<<w_params, w_items, w_empty>>, q) : q \in Opt("q", {w_foo, LongText}) }
  \cup { Get1(<<w_params, w, w_empty>>, q) :
           w \in {w_default, w_required, w_none}, q \in Opt("q", {w_foo, ShortText}) }
  \cup { Get1(<<w_params, w_multiple, w_empty>>, q) : q \in Repeated("q", {w_foo, w_bar}) }
  \cup { Get1(<<w_params, w_multiple, w_defaults, w_empty>>, q) : q \in Repeated("q", {w_foo, w_bar}) }

(* --------------------------- state machine ----------------------------- *)

NoRequest == Request("", << >>, << >>, NoBody)
NoResponse == Response(0, NoRoute, FALSE, JNull)

Init ==
  /\ fake_items_db = InitialDb
  /\ pc = [c \in Clients |-> "idle"]
  /\ req = [c \in Clients |-> NoRequest]
  /\ resp = [c \in Clients |-> NoResponse]

\* client c sends request r
Receive(c, r) ==
  /\ pc[c] \in {"idle", "done"}
  /\ pc' = [pc EXCEPT ![c] = "pending"]
  /\ req' = [req EXCEPT ![c] = r]
  /\ resp' = [resp EXCEPT ![c] = NoResponse]
  /\ UNCHANGED fake_items_db

Handle_del(c) ==
  /\ pc[c] = "pending"
  /\ resp' = [resp EXCEPT ![c] = Serve(req[c], fake_items_db)]
  /\ pc' = [pc EXCEPT ![c] = "done"]
  /\ fake_items_db' =
       IF resp'[c].status = 200 /\ routes[resp'[c].route].endpoint = "read_item_query"
       THEN SubSeq(fake_items_db, Len(resp'[c].body.v) + 1, Len(fake_items_db))
       ELSE fake_items_db
  /\ UNCHANGED req

Handle_rotate(c) ==
  /\ pc[c] = "pending"
  /\ resp' = [resp EXCEPT ![c] = Serve(req[c], fake_items_db)]
  /\ pc' = [pc EXCEPT ![c] = "done"]
  /\ fake_items_db' =
       IF resp'[c].status = 200 /\ routes[resp'[c].route].endpoint = "read_item_query"
       THEN Tail(fake_items_db) \o <<Head(fake_items_db)>>
       ELSE fake_items_db
  /\ UNCHANGED req

\* the event loop runs the request of client c to completion
Handle(c) ==
  /\ pc[c] = "pending"
  /\ resp' = [resp EXCEPT ![c] = Serve(req[c], fake_items_db)]
  /\ pc' = [pc EXCEPT ![c] = "done"]
  /\ UNCHANGED <<fake_items_db, req>>

Next ==
  \E c \in Clients :
    \/ \E r \in Requests : Receive(c, r)
    \/ Handle(c)

Spec == Init /\ [][Next]_vars

(* ------------------------------ claims --------------------------------- *)

Done(c) == pc[c] = "done"

Served(c, m, p) == Done(c) /\ req[c].method = m /\ req[c].path = p

Endpoint(c) == IF resp[c].route = NoRoute THEN "" ELSE routes[resp[c].route].endpoint

\* the registrations of the (method, path pattern) of route i
Registrations(i) ==
  { j \in 1..Len(routes) : routes[j].method = routes[i].method /\ routes[j].path = routes[i].path }

\* C1: GET /users/me is served by read_user_me and returns the fixed text,
\* never by read_user with user_id = "me"; GET /users/<x> for any other
\* non-empty segment x is served by read_user and returns {"user_id": x}.
C1_UsersMe ==
  \A c \in Clients :
    /\ Served(c, "GET", <<w_users, w_me>>) =>
         /\ Endpoint(c) = "read_user_me"
         /\ resp[c].status = 200
         /\ resp[c].body = JDict([user_id |-> JStr(m_current_user)])
    /\ \A x \in {w_foo, IntText(5)} :
         Served(c, "GET", <<w_users, x>>) =>
           /\ Endpoint(c) = "read_user"
           /\ resp[c].status = 200
           /\ resp[c].body = JDict([user_id |-> JStr(x)])

C1_Witness ==
  /\ Served("c1", "GET", <<w_users, w_me>>) /\ resp["c1"].status = 200
  /\ Served("c2", "GET", <<w_users, w_foo>>) /\ resp["c2"].status = 200

\* C2: GET /items/<n> with <n> the decimal text of integer n and no query
\* parameter is accepted and returns exactly {"item_id": n}, n an integer.
C2_ItemIdCoerced ==
  \A c \in Clients :
    \A n \in {0 - 1, 0, 1, 5, 1000, 1001} :
      (Served(c, "GET", <<w_items, IntText(n)>>) /\ req[c].query = << >>) =>
        /\ resp[c].status = 200
        /\ resp[c].body = JDict([item_id |-> JInt(n)])

C2_Witness ==
  /\ Served("c1", "GET", <<w_items, IntText(5)>>) /\ req["c1"].query = << >>
  /\ resp["c1"].body = JDict([item_id |-> JInt(5)])
  /\ Served("c2", "GET", <<w_items, IntText(0 - 1)>>) /\ req["c2"].query = << >>
  /\ resp["c2"].status = 200

\* C3 as stated: a request whose (method, path pattern) is registered more
\* than once is served by the last registration.
C3_LastRegistrationServes ==
  \A c \in Clients :
    (Done(c) /\ resp[c].route # NoRoute) =>
      resp[c].route = Max(Registrations(resp[c].route))

\* C3 amended: a request whose (method, path pattern) is registered more than
\* once is served by the first registration and never by a later one: GET
\* /items/{item_id} by read_item (no range, no q), PUT /request/items/{item_id}
\* by create_item_body_path (q never appears in the response), and GET
\* /params/required/ by its first definition.
C3_FirstRegistrationServes ==
  \A c \in Clients :
    /\ (Done(c) /\ resp[c].route # NoRoute) =>
         resp[c].route = Min(Registrations(resp[c].route))
    /\ \A t \in ItemIds :
         Served(c, "GET", <<w_items, t>>) => Endpoint(c) = "read_item"
    /\ Served(c, "PUT", <<w_request, w_items, IntText(5)>>) =>
         /\ Endpoint(c) = "create_item_body_path"
         /\ resp[c].status = 200 => "q" \notin DOMAIN resp[c].body.v
    /\ Served(c, "GET", <<w_params, w_required, w_empty>>) =>
         Endpoint(c) = "read_items_required"

C3_Witness ==
  /\ Served("c1", "PUT", <<w_request, w_items, IntText(5)>>)
  /\ req["c1"].query = <<[k |-> "q", v |-> w_foo]>>
  /\ resp["c1"].status = 200
  /\ Served("c2", "GET", <<w_items, IntText(1001)>>)
  /\ req["c2"].query = << >>
  /\ resp["c2"].status = 200

\* C4: GET /models/<m> for m in {alexnet, resnet, lenet} returns model_name m
\* and a message different from the messages of the other two values; for
\* any other m the request is rejected with a client error and get_model does
\* not run.
C4_Models ==
  \A c \in Clients :
    \A m \in ModelName \cup {w_foo} :
      Served(c, "GET", <<w_models, m>>) =>
        IF m \in ModelName
        THEN /\ resp[c].status = 200
             /\ Endpoint(c) = "get_model"
             /\ resp[c].body.v.model_name = JStr(m)
             /\ \A d \in Clients :
                  (/\ Done(d) /\ req[d].method = "GET" /\ Len(req[d].path) = 2
                   /\ req[d].path[1] = w_models /\ req[d].path[2] \in ModelName
                   /\ req[d].path[2] # m)
                  => resp[d].body.v.message # resp[c].body.v.message
        ELSE resp[c].status = 422 /\ ~resp[c].ran

C4_Witness ==
  /\ Served("c1", "GET", <<w_models, w_lenet>>) /\ resp["c1"].status = 200
  /\ Served("c2", "GET", <<w_models, w_resnet>>) /\ resp["c2"].status = 200

\* the entries of the sample list at 0-based indices skip <= i < min(skip + limit, 3)
Run(skip, limit) ==
  LET hi == IF skip + limit < Len(InitialDb) THEN skip + limit ELSE Len(InitialDb)
  IN  [j \in 1..(IF hi > skip THEN hi - skip ELSE 0) |-> InitialDb[skip + j]]

Skip(t) == <<[k |-> "skip", v |-> t]>>
Limit(t) == <<[k |-> "limit", v |-> t]>>

\* C5: GET /query/ with skip >= 0 and limit >= 0 (0 and 10 when omitted)
\* returns the entries of the sample list at indices skip <= i <
\* min(skip + limit, 3), in list order.
C5_QuerySlice ==
  \A c \in Clients :
    Served(c, "GET", <<w_query, w_empty>>) =>
      \A s, l \in 0..MaxInt :
        /\ req[c].query = Skip(IntText(s)) \o Limit(IntText(l)) =>
             resp[c].status = 200 /\ resp[c].body = JList(Run(s, l))
        /\ req[c].query = Skip(IntText(s)) =>
             resp[c].status = 200 /\ resp[c].body = JList(Run(s, 10))
        /\ req[c].query = Limit(IntText(l)) =>
             resp[c].status = 200 /\ resp[c].body = JList(Run(0, l))
        /\ req[c].query = << >> =>
             resp[c].status = 200 /\ resp[c].body = JList(Run(0, 10))

C5_Witness ==
  /\ Served("c1", "GET", <<w_query, w_empty>>)
  /\ req["c1"].query = Skip(IntText(0)) \o Limit(IntText(2))
  /\ resp["c1"].body = JList(<<InitialDb[1], InitialDb[2]>>)
  /\ Served("c2", "GET", <<w_query, w_empty>>)
  /\ req["c2"].query = Skip(IntText(3))
  /\ resp["c2"].body = JList(<< >>)

Field(b, f) == IF Has(b, f) THEN b.v[f] ELSE JNull

\* C6 as stated: POST /request/items/ with a valid Item body returns name,
\* description, price and tax of the body (absent ones null), plus
\* price_with_tax = price + tax whenever the body supplies a tax value, and
\* no price_with_tax key when it does not.
C6_PriceWithTax ==
  \A c \in Clients :
    (Served(c, "POST", <<w_request, w_items, w_empty>>) /\ IsItem(req[c].body)) =>
      /\ resp[c].status = 200
      /\ \A f \in {"name", "description", "price", "tax"} :
           f \in DOMAIN resp[c].body.v /\ resp[c].body.v[f] = Field(req[c].body, f)
      /\ IF Field(req[c].body, "tax") # JNull
         THEN /\ "price_with_tax" \in DOMAIN resp[c].body.v
              /\ resp[c].body.v["price_with_tax"] =
                   JInt(req[c].body.v["price"].v + req[c].body.v["tax"].v)
         ELSE "price_with_tax" \notin DOMAIN resp[c].body.v

\* C7: GET /params/multiple/ with q repeated k >= 1 times returns {"q": [v1,
\* ..., vk]}, the values in URL order with duplicates kept; with q absent it
\* returns {"q": null}, and GET /params/multiple/defaults/ with q absent
\* returns {"q": ["foo", "bar"]}.
C7_MultipleValues ==
  \A c \in Clients :
    /\ Served(c, "GET", <<w_params, w_multiple, w_empty>>) =>
         /\ resp[c].status = 200
         /\ IF Len(req[c].query) >= 1
            THEN resp[c].body =
                   JDict([q |-> JList([i \in 1..Len(req[c].query) |-> JStr(req[c].query[i].v)])])
            ELSE resp[c].body = JDict([q |-> JNull])
    /\ (Served(c, "GET", <<w_params, w_multiple, w_defaults, w_empty>>) /\ req[c].query = << >>) =>
         /\ resp[c].status = 200
         /\ resp[c].body = JDict([q |-> JList(<<JStr(w_foo), JStr(w_bar)>>)])

C7_Witness ==
  /\ Served("c1", "GET", <<w_params, w_multiple, w_empty>>)
  /\ req["c1"].query = <<[k |-> "q", v |-> w_foo], [k |-> "q", v |-> w_bar]>>
  /\ resp["c1"].body = JDict([q |-> JList(<<JStr(w_foo), JStr(w_bar)>>)])
  /\ Served("c2", "GET", <<w_params, w_multiple, w_defaults, w_empty>>)
  /\ req["c2"].query = << >>
  /\ resp["c2"].status = 200

\* C8: every request ends either rejected with a client error, its handler
\* never run, or with the result its handler returned; no handler raises.
\* A missing needy is rejected and a negative skip or limit is served.
C8_RejectedOrReturned ==
  \A c \in Clients :
    Done(c) =>
      /\ \/ resp[c].status \in {404, 405, 422} /\ ~resp[c].ran
         \/ resp[c].status = 200 /\ resp[c].ran /\ resp[c].body.k \in {"dict", "list"}
      /\ (Endpoint(c) = "read_user_item_required" /\ ~HasKey(req[c].query, "needy")) =>
           resp[c].status = 422
      /\ (/\ Endpoint(c) = "read_item_query"
          /\ \A i \in 1..Len(req[c].query) : IsIntText(req[c].query[i].v)) =>
           resp[c].status = 200

C8_Witness ==
  /\ Served("c1", "GET", <<w_query, w_items, w_foo>>)
  /\ req["c1"].query = << >>
  /\ resp["c1"].status = 422 /\ ~resp["c1"].ran
  /\ Served("c2", "GET", <<w_query, w_empty>>)
  /\ req["c2"].query = Skip(IntText(0 - 1)) \o Limit(IntText(0 - 1))
  /\ resp["c2"].status = 200 /\ resp["c2"].ran

\* C9: the sample list keeps its initial three entries, in order, whatever
\* requests are served.
C9_DbUnchanged == fake_items_db = InitialDb

C9_Witness ==
  /\ Served("c1", "GET", <<w_query, w_empty>>)
  /\ resp["c1"].status = 200 /\ Len(resp["c1"].body.v) = 3
  /\ Served("c2", "POST", <<w_request, w_items, w_empty>>)
  /\ resp["c2"].status = 200

====
